---- MODULE Spec2Model ----
(***************************************************************************)
(* The realtime session of the Pterodactyl extension: the effect of        *)
(* ServerConsole (src/src/console.tsx) and of ServerMonitor                *)
(* (src/src/monitor.tsx).  One session is one run of the useEffect: the    *)
(* closure variable isMounted, the credential exchanges started by         *)
(* connect(), the sockets they create, and the component state the         *)
(* handlers write.                                                         *)
(***************************************************************************)
EXTENDS Integers, Sequences, FiniteSets, TLC

VARIABLES
    mode,         \* "console" or "monitor": which component runs the session
    isMounted,    \* the closure flag of the effect
    exch,         \* exch[e]: state of the e-th call of connect()
    readyState,   \* readyState[s]: the socket created by exchange s
    closeCalled,  \* closeCalled[s]: the session called close() on socket s
    sent,         \* sent[s]: frames written to socket s, in order
    timer,        \* timer[s]: the backlog timer armed by socket s's open handler
    socketRef,    \* socketRef.current: 0 is null, else a socket
    isConnected,  \* useState isConnected
    logs,         \* useState logs (console)
    stats,        \* useState stats (monitor): <<>> is null
    lastNet,      \* lastNetRef.current (monitor): <<>> is null
    history,      \* useState history (monitor)
    toasts,       \* toasts[title]: number of showToast calls with that title
    thrown,       \* an exception escaped a callback of the session
    nFrames,      \* inbound frames delivered so far
    derived,      \* log of the stats handler: snapshot, baseline read, deltas
    lastEvent,    \* the callback that ran last: its kind and its socket or exchange
    command,      \* useState command (console): the text of the input field
    power,        \* the calls of handlePowerAction made so far, in order
    prefs,        \* getPreferenceValues().pterodactylUrl, as a sequence of characters
    origin,       \* origin[s]: the Origin header socket s was created with
    item          \* a ServerListItem: its stats and the runs of its effect

vars == <<mode, isMounted, exch, readyState, closeCalled, sent, timer, socketRef,
          isConnected, logs, stats, lastNet, history, toasts, thrown, nFrames,
          derived, lastEvent, command, power, prefs, origin, item>>

\* Bounds of the model.
MaxExch == 2
MaxFrames == 2
MaxSnaps == 4

MAX_HISTORY == 40

Ids == 1..MaxExch

None == <<>>
Some(x) == <<x>>

----------------------------------------------------------------------------
\* Numbers.  History values are quotients (bytes / 1024): a number is kept as
\* the reduced fraction <<numerator, denominator>>.

RECURSIVE Gcd(_, _)
Gcd(a, b) == IF b = 0 THEN a ELSE Gcd(b, a % b)

Num(n) == <<n, 1>>

Div(f, d) ==
    LET n == f[1]
        m == f[2] * d
        g == Gcd(n, m)
    IN  <<n \div g, m \div g>>

----------------------------------------------------------------------------
\* JSON texts.  A text either parses to a value or makes JSON.parse throw.

\* A parsed object lists in "absent" the members the text does not have;
\* "all" stands for the JSON text null, every member access of which throws.
Json(v) == [ok |-> TRUE, value |-> v]
NotJson == [ok |-> FALSE, value |-> [event |-> "", args |-> <<>>, absent |-> {}]]
JsonNull == Json([event |-> "", args |-> <<>>, absent |-> {"all"}])

\* Outbound frames (JSON.stringify of the object).
AuthFrame(token) == [event |-> "auth", args |-> <<token>>]
SendCommandFrame(text) ==
    [event |-> "send command", args |-> <<text>>]

SendLogsFrame == [event |-> "send logs", args |-> <<"null">>]

\* Inbound frames.
ConsoleOutput(lines) ==
    Json([event |-> "console output", args |-> lines, absent |-> {}])
TokenExpiring == Json([event |-> "token expiring", args |-> <<>>, absent |-> {}])
StatsFrame(snap) == Json([event |-> "stats", args |-> <<Json(snap)>>, absent |-> {}])

Snapshot(cpu, mem, rx, tx) ==
    [cpu_absolute |-> cpu, memory_bytes |-> mem,
     network |-> [rx_bytes |-> rx, tx_bytes |-> tx], absent |-> {}]

\* Frames that parse but lack what the handlers read.
ConsoleOutputNoArgs ==
    Json([event |-> "console output", args |-> <<>>, absent |-> {"args"}])
StatsFrameBadText ==
    Json([event |-> "stats", absent |-> {},
          args |-> <<[ok |-> FALSE, value |-> Snapshot(0, 0, 0, 0)]>>])
StatsFrameNoNetwork(cpu, mem) ==
    StatsFrame([Snapshot(cpu, mem, 0, 0) EXCEPT !.absent = {"network"}])

\* The token an exchange returns: one fresh token per exchange.
Token(e) == "token-" \o ToString(e)

----------------------------------------------------------------------------
\* The ws socket, as far as the session drives it.

\* ws.close(): a connecting socket aborts its handshake (error, then close,
\* are emitted later), an open one starts the closing handshake, any other
\* is left as it is.
WsClose(rs, s) ==
    [rs EXCEPT ![s] = CASE rs[s] = "connecting" -> "aborting"
                        [] rs[s] = "open" -> "closing"
                        [] OTHER -> rs[s]]

\* ws.send(frame) with no callback: written when the socket is open, throws
\* when it is connecting; on a closing or closed socket nothing is written and
\* whether it throws depends on the ws release, so both outcomes are kept.
WsSend(rs, s, frame) ==
    CASE rs[s] = "open" ->
            {[sent |-> [sent EXCEPT ![s] = Append(@, frame)], throws |-> FALSE]}
      [] rs[s] = "connecting" ->
            {[sent |-> sent, throws |-> TRUE]}
      [] OTHER ->
            {[sent |-> sent, throws |-> FALSE], [sent |-> sent, throws |-> TRUE]}

----------------------------------------------------------------------------
\* Metric derivation and the rolling history (monitor).

\* Derive without the clamp of a negative difference.
DeriveUnclamped(snap, base) ==
    IF base # None
    THEN [rx |-> snap.network.rx_bytes - base[1].rx,
          tx |-> snap.network.tx_bytes - base[1].tx]
    ELSE [rx |-> 0, tx |-> 0]

\* rxDelta, txDelta of a snapshot against the baseline read from lastNetRef.
Derive(snap, base) ==
    IF base # None
    THEN LET dRx == snap.network.rx_bytes - base[1].rx
             dTx == snap.network.tx_bytes - base[1].tx
         IN  [rx |-> IF dRx >= 0 THEN dRx ELSE 0,
              tx |-> IF dTx >= 0 THEN dTx ELSE 0]
    ELSE [rx |-> 0, tx |-> 0]

\* NewBaseline that keeps the old baseline when a counter fell back.
NewBaselineKeepHigh(snap) ==
    IF lastNet # None /\ snap.network.rx_bytes < lastNet[1].rx
    THEN lastNet
    ELSE Some([rx |-> snap.network.rx_bytes, tx |-> snap.network.tx_bytes])

\* The value written to lastNetRef.current.
NewBaseline(snap) ==
    Some([rx |-> snap.network.rx_bytes, tx |-> snap.network.tx_bytes])

\* Push that appends without evicting.
PushNoEvict(window, value) == Append(window, value)

\* Push that evicts the newest element instead of the oldest.
PushDropNewest(window, value) == Append(SubSeq(window, 1, Len(window) - 1), value)

\* [...window.slice(1), value]
Push(window, value) == Append(SubSeq(window, 2, Len(window)), value)

\* The setHistory updater.
PushAll(prev, snap, d) ==
    [cpu       |-> Push(prev.cpu, Num(snap.cpu_absolute)),
     memory    |-> Push(prev.memory, Div(Div(Num(snap.memory_bytes), 1024), 1024)),
     networkIn |-> Push(prev.networkIn, Div(Num(d.rx), 1024)),
     networkOut |-> Push(prev.networkOut, Div(Num(d.tx), 1024))]

\* new Array(MAX_HISTORY).fill(0)
Filled == [i \in 1..MAX_HISTORY |-> Num(0)]

InitialHistory ==
    [cpu |-> Filled, memory |-> Filled, networkIn |-> Filled, networkOut |-> Filled]

----------------------------------------------------------------------------
\* The session.

Event(type, id) == [type |-> type, id |-> id]

Started == {e \in Ids : exch[e] # "unused"}

Toast(title) == [toasts EXCEPT ![title] = @ + 1]

Titles == {"WebSocket Error", "Failed to connect", "Not connected", "Command sent"}

\* String.prototype.endsWith and slice(0, -1) on a sequence of characters.
EndsWith(text, ch) == Len(text) > 0 /\ text[Len(text)] = ch

SliceOffLast(text) == SubSeq(text, 1, Len(text) - 1)

\* connect(): the Origin header computed from the configured panel URL.
Origin(url) == IF EndsWith(url, "/") THEN SliceOffLast(url) ELSE url

\* A configured panel URL: "p" stands for a character other than '/'.
PanelUrl == <<"p", "p", "/">>

\* getServerResources: what the caller gets for the outcome of the request.
OfflineSnapshot ==
    [current_state |-> "offline", is_suspended |-> FALSE,
     resources |-> [memory_bytes |-> 0, cpu_absolute |-> 0, disk_bytes |-> 0,
                    network_rx_bytes |-> 0, network_tx_bytes |-> 0]]

\* getServerResources that hands on whatever the request left behind.
getServerResourcesNoFallback(response) == response.attributes

getServerResources(response) ==
    IF response.ok THEN response.attributes ELSE OfflineSnapshot

\* One run of the effect of ServerListItem: the dependencies it ran for, its
\* closure flag, and the resources request it issued.
EffectRun(identifier, refreshTick) ==
    [identifier |-> identifier, refreshTick |-> refreshTick, isMounted |-> TRUE,
     pc |-> "pending", response |-> None, returned |-> None]

\* The item as it mounts: stats null, first run of the effect under way.
\* statsFrom is the run whose response wrote stats (0: none).
InitialItem ==
    [mounted |-> TRUE, stats |-> None, statsFrom |-> 0,
     runs |-> <<EffectRun("srv-a", 1)>>]

SessionInit ==
    /\ mode \in {"console", "monitor"}
    /\ isMounted = TRUE
    /\ exch = [e \in Ids |-> IF e = 1 THEN "pending" ELSE "unused"]
    /\ readyState = [s \in Ids |-> "none"]
    /\ closeCalled = [s \in Ids |-> FALSE]
    /\ sent = [s \in Ids |-> <<>>]
    /\ timer = [s \in Ids |-> "none"]
    /\ socketRef = 0
    /\ isConnected = FALSE
    /\ logs = <<>>
    /\ stats = None
    /\ lastNet = None
    /\ history = InitialHistory
    /\ toasts = [t \in Titles |-> 0]
    /\ thrown = FALSE
    /\ nFrames = 0
    /\ derived = <<>>
    /\ lastEvent = Event("mount", 0)
    /\ command = ""
    /\ power = <<>>
    /\ origin = [s \in Ids |-> None]
    /\ item = InitialItem

Init == SessionInit /\ prefs = PanelUrl

\* connect() up to its await: one more credential exchange is in flight.
Connect ==
    /\ Cardinality(Started) < MaxExch
    /\ exch' = [exch EXCEPT ![Cardinality(Started) + 1] = "pending"]

\* ExchangeResolve without the isMounted check after the await.
ExchangeResolveUnguarded(e) ==
    /\ exch[e] = "pending"
    /\ exch' = [exch EXCEPT ![e] = "resolved"]
    /\ readyState' = [readyState EXCEPT ![e] = "connecting"]
    /\ socketRef' = e
    /\ origin' = [origin EXCEPT ![e] = Some(Origin(prefs))]
    /\ lastEvent' = Event("resolve", e)
    /\ UNCHANGED <<prefs, item, mode, command, power, isMounted, closeCalled, sent, timer, isConnected, logs,
                   stats, lastNet, history, toasts, thrown, nFrames, derived>>

\* ExchangeResolve that starts the new connection from a clean slate.
ExchangeResolveResetting(e) ==
    /\ exch[e] = "pending"
    /\ IF ~isMounted
       THEN /\ exch' = [exch EXCEPT ![e] = "abandoned"]
            /\ UNCHANGED <<readyState, socketRef, origin, logs, lastNet>>
       ELSE /\ exch' = [exch EXCEPT ![e] = "resolved"]
            /\ readyState' = [readyState EXCEPT ![e] = "connecting"]
            /\ socketRef' = e
            /\ origin' = [origin EXCEPT ![e] = Some(Origin(prefs))]
            /\ logs' = <<>>
            /\ lastNet' = None
    /\ lastEvent' = Event("resolve", e)
    /\ UNCHANGED <<prefs, item, mode, command, power, isMounted, closeCalled, sent, timer,
                   isConnected, stats, history, toasts, thrown, nFrames, derived>>

\* The continuation of connect() after the await, on success.
ExchangeResolve(e) ==
    /\ exch[e] = "pending"
    /\ IF ~isMounted
       THEN /\ exch' = [exch EXCEPT ![e] = "abandoned"]
            /\ UNCHANGED <<readyState, socketRef, origin>>
       ELSE /\ exch' = [exch EXCEPT ![e] = "resolved"]
            /\ readyState' = [readyState EXCEPT ![e] = "connecting"]
            /\ socketRef' = e
            /\ origin' = [origin EXCEPT ![e] = Some(Origin(prefs))]
    /\ lastEvent' = Event("resolve", e)
    /\ UNCHANGED <<prefs, item, mode, command, power, isMounted, closeCalled, sent, timer, isConnected, logs,
                   stats, lastNet, history, toasts, thrown, nFrames, derived>>

\* ExchangeReject without the isMounted check.
ExchangeRejectUnguarded(e) ==
    /\ exch[e] = "pending"
    /\ exch' = [exch EXCEPT ![e] = "rejected"]
    /\ toasts' = Toast("Failed to connect")
    /\ lastEvent' = Event("reject", e)
    /\ UNCHANGED <<prefs, origin, item, mode, command, power, isMounted, readyState, closeCalled, sent,
                   timer, socketRef, isConnected, logs, stats, lastNet, history,
                   thrown, nFrames, derived>>

\* The catch block of connect(): the exchange failed.
ExchangeReject(e) ==
    /\ exch[e] = "pending"
    /\ exch' = [exch EXCEPT ![e] = "rejected"]
    /\ toasts' = IF isMounted THEN Toast("Failed to connect") ELSE toasts
    /\ lastEvent' = Event("reject", e)
    /\ UNCHANGED <<prefs, origin, item, mode, command, power, isMounted, readyState, closeCalled, sent, timer, socketRef,
                   isConnected, logs, stats, lastNet, history, thrown, nFrames,
                   derived>>

\* SockOpen that authenticates every socket with the first exchange's token.
SockOpenFirstToken(s) ==
    /\ readyState[s] = "connecting"
    /\ readyState' = [readyState EXCEPT ![s] = "open"]
    /\ isConnected' = IF isMounted THEN TRUE ELSE isConnected
    /\ \E out \in WsSend(readyState', s, AuthFrame(Token(1))) :
          /\ sent' = out.sent
          /\ thrown' = (thrown \/ out.throws)
    /\ timer' = IF mode = "console" THEN [timer EXCEPT ![s] = "armed"] ELSE timer
    /\ lastEvent' = Event("open", s)
    /\ UNCHANGED <<prefs, origin, item, mode, command, power, isMounted, exch, closeCalled, socketRef, logs, stats,
                   lastNet, history, toasts, nFrames, derived>>

\* ws.on("open"): the handshake of socket s completed.
SockOpen(s) ==
    /\ readyState[s] = "connecting"
    /\ readyState' = [readyState EXCEPT ![s] = "open"]
    /\ isConnected' = IF isMounted THEN TRUE ELSE isConnected
    /\ \E out \in WsSend(readyState', s, AuthFrame(Token(s))) :
          /\ sent' = out.sent
          /\ thrown' = (thrown \/ out.throws)
    /\ timer' = IF mode = "console" THEN [timer EXCEPT ![s] = "armed"] ELSE timer
    /\ lastEvent' = Event("open", s)
    /\ UNCHANGED <<prefs, origin, item, mode, command, power, isMounted, exch, closeCalled, socketRef, logs, stats,
                   lastNet, history, toasts, nFrames, derived>>

\* The setTimeout callback of the open handler (console): request the backlog.
Timer(s) ==
    /\ timer[s] = "armed"
    /\ timer' = [timer EXCEPT ![s] = "fired"]
    /\ \E out \in WsSend(readyState, s, SendLogsFrame) :
          /\ sent' = out.sent
          /\ thrown' = (thrown \/ out.throws)
    /\ lastEvent' = Event("timer", s)
    /\ UNCHANGED <<prefs, origin, item, mode, command, power, isMounted, exch, readyState, closeCalled, socketRef,
                   isConnected, logs, stats, lastNet, history, toasts, nFrames,
                   derived>>

\* ConsoleDispatch with JSON.parse outside of the try.
ConsoleDispatchNoTry(data) ==
    IF ~data.ok
    THEN thrown' = TRUE /\ UNCHANGED <<logs, exch>>
    ELSE LET parsed == data.value IN
         CASE parsed.event = "console output" ->
                 /\ logs' = logs \o parsed.args
                 /\ UNCHANGED <<exch, thrown>>
           [] parsed.event = "token expiring" ->
                 /\ Connect
                 /\ UNCHANGED <<logs, thrown>>
           [] OTHER -> UNCHANGED <<logs, exch, thrown>>

\* ConsoleDispatch that puts the new lines in front of the stored ones.
ConsoleDispatchPrepend(data) ==
    IF ~data.ok \/ "all" \in data.value.absent
    THEN UNCHANGED <<logs, exch, thrown>>
    ELSE LET parsed == data.value IN
         CASE parsed.event = "console output" ->
                 /\ IF "args" \in parsed.absent
                    THEN thrown' = TRUE /\ UNCHANGED logs
                    ELSE logs' = parsed.args \o logs /\ UNCHANGED thrown
                 /\ UNCHANGED exch
           [] parsed.event = "token expiring" ->
                 /\ Connect
                 /\ UNCHANGED <<logs, thrown>>
           [] OTHER -> UNCHANGED <<logs, exch, thrown>>

\* The body of the console's message handler, after the isMounted check.
\* JSON.parse and the member reads run inside the try; the setLogs updater
\* runs when React processes the update, outside of it.
ConsoleDispatch(data) ==
    IF ~data.ok \/ "all" \in data.value.absent
    THEN UNCHANGED <<logs, exch, thrown>>               \* threw inside the try
    ELSE LET parsed == data.value IN
         CASE parsed.event = "console output" ->
                 /\ IF "args" \in parsed.absent
                    THEN thrown' = TRUE /\ UNCHANGED logs   \* ...undefined
                    ELSE logs' = logs \o parsed.args /\ UNCHANGED thrown
                 /\ UNCHANGED exch
           [] parsed.event = "token expiring" ->
                 /\ Connect
                 /\ UNCHANGED <<logs, thrown>>
           [] OTHER -> UNCHANGED <<logs, exch, thrown>>

\* The stats branch of the monitor's message handler.
StatsBranch(parsed) ==
    LET text == parsed.args[1] IN
    IF "args" \in parsed.absent \/ ~text.ok
    THEN UNCHANGED <<stats, lastNet, history, derived>>  \* threw before setStats
    ELSE LET statsData == text.value
             d == Derive(statsData, lastNet)
         IN  /\ stats' = Some(statsData)
             /\ IF "network" \in statsData.absent
                THEN UNCHANGED <<lastNet, history, derived>>  \* threw after setStats
                ELSE /\ lastNet' = NewBaseline(statsData)
                     /\ history' = PushAll(history, statsData, d)
                     /\ derived' = Append(derived,
                                          [snap |-> statsData, base |-> lastNet,
                                           rx |-> d.rx, tx |-> d.tx])

\* The body of the monitor's message handler, after the isMounted check.
MonitorDispatch(data) ==
    IF ~data.ok \/ "all" \in data.value.absent
    THEN UNCHANGED <<stats, lastNet, history, derived, exch>>
    ELSE LET parsed == data.value IN
         CASE parsed.event = "stats" ->
                 /\ StatsBranch(parsed)
                 /\ UNCHANGED exch
           [] parsed.event = "token expiring" ->
                 /\ Connect
                 /\ UNCHANGED <<stats, lastNet, history, derived>>
           [] OTHER -> UNCHANGED <<stats, lastNet, history, derived, exch>>

\* ws.on("message"): socket s delivers one inbound frame.
OnMessage(s, data) ==
    IF ~isMounted
    THEN UNCHANGED <<logs, stats, lastNet, history, derived, exch, thrown>>
    ELSE IF mode = "console"
         THEN ConsoleDispatch(data) /\ UNCHANGED <<stats, lastNet, history, derived>>
         ELSE MonitorDispatch(data) /\ UNCHANGED <<logs, thrown>>

\* The transport delivers frames on a socket from its open event until its
\* close event, also while a close() of the session is still in progress.
SockMessage(s, data) ==
    /\ readyState[s] \in {"open", "closing"}
    /\ nFrames' = nFrames + 1
    /\ OnMessage(s, data)
    /\ lastEvent' = [type |-> "message", id |-> s, data |-> data]
    /\ UNCHANGED <<prefs, origin, item, mode, command, power, isMounted, readyState, closeCalled, sent,
                   timer, socketRef, isConnected, toasts>>

\* ws.on("error"): a failed or aborted handshake, or a transport error.
SockError(s) ==
    /\ readyState[s] \in {"connecting", "aborting", "open", "closing"}
    /\ readyState' = [readyState EXCEPT ![s] = "errored"]
    /\ IF isMounted
       THEN /\ toasts' = Toast("WebSocket Error")
            /\ isConnected' = FALSE
       ELSE UNCHANGED <<toasts, isConnected>>
    /\ lastEvent' = Event("error", s)
    /\ UNCHANGED <<prefs, origin, item, mode, command, power, isMounted, exch, closeCalled, sent, timer, socketRef, logs,
                   stats, lastNet, history, thrown, nFrames, derived>>

\* The peer's close frame or the loss of the connection: ws sets readyState to
\* CLOSING and stops delivering frames; it emits "close" only later, so no
\* handler of the session runs here.
SockClosing(s) ==
    /\ readyState[s] = "open"
    /\ readyState' = [readyState EXCEPT ![s] = "peerClosing"]
    /\ UNCHANGED <<prefs, origin, item, mode, command, power, isMounted, exch, closeCalled, sent, timer,
                   socketRef, isConnected, logs, stats, lastNet, history, toasts,
                   thrown, nFrames, derived, lastEvent>>

\* SockClose without the isMounted check.
SockCloseUnguarded(s) ==
    /\ readyState[s] \in {"open", "closing", "peerClosing", "errored"}
    /\ readyState' = [readyState EXCEPT ![s] = "closed"]
    /\ isConnected' = FALSE
    /\ lastEvent' = Event("close", s)
    /\ UNCHANGED <<prefs, origin, item, mode, command, power, isMounted, exch, closeCalled, sent, timer, socketRef, logs,
                   stats, lastNet, history, toasts, thrown, nFrames, derived>>

\* SockClose that reconnects when the socket closes.
SockCloseRetrying(s) ==
    /\ readyState[s] \in {"open", "closing", "peerClosing", "errored"}
    /\ readyState' = [readyState EXCEPT ![s] = "closed"]
    /\ isConnected' = IF isMounted THEN FALSE ELSE isConnected
    /\ IF isMounted /\ Cardinality(Started) < MaxExch
       THEN Connect
       ELSE UNCHANGED exch
    /\ lastEvent' = Event("close", s)
    /\ UNCHANGED <<prefs, origin, item, mode, command, power, isMounted, closeCalled, sent, timer,
                   socketRef, logs, stats, lastNet, history, toasts, thrown,
                   nFrames, derived>>

\* ws.on("close"): the socket is closed, by either side or after an error.
SockClose(s) ==
    /\ readyState[s] \in {"open", "closing", "peerClosing", "errored"}
    /\ readyState' = [readyState EXCEPT ![s] = "closed"]
    /\ isConnected' = IF isMounted THEN FALSE ELSE isConnected
    /\ lastEvent' = Event("close", s)
    /\ UNCHANGED <<prefs, origin, item, mode, command, power, isMounted, exch, closeCalled, sent, timer, socketRef, logs,
                   stats, lastNet, history, toasts, thrown, nFrames, derived>>

\* String.prototype.trim on the command texts the user types here.
Trim(text) ==
    CASE text = " " -> ""
      [] text = " list " -> "list"
      [] OTHER -> text

\* onSearchTextChange={setCommand}: the user edits the search bar.
SetCommand(text) ==
    /\ isMounted
    /\ mode = "console"
    /\ text # command
    /\ command' = text
    /\ lastEvent' = Event("setCommand", 0)
    /\ UNCHANGED <<prefs, origin, item, mode, power, isMounted, exch, readyState, closeCalled, sent,
                   timer, socketRef, isConnected, logs, stats, lastNet, history,
                   toasts, thrown, nFrames, derived>>

\* sendCommand(): the "Send Command" action of a log line.  A send() that
\* throws rejects the async function before setCommand and showToast.
SendCommand ==
    /\ isMounted
    /\ mode = "console"
    /\ logs # <<>>
    /\ IF Trim(command) = ""
       THEN UNCHANGED <<sent, command, toasts, thrown>>
       ELSE IF socketRef # 0 /\ isConnected
            THEN \E out \in WsSend(readyState, socketRef, SendCommandFrame(command)) :
                    /\ sent' = out.sent
                    /\ IF out.throws
                       THEN thrown' = TRUE /\ UNCHANGED <<command, toasts>>
                       ELSE /\ command' = ""
                            /\ toasts' = Toast("Command sent")
                            /\ UNCHANGED thrown
            ELSE /\ toasts' = Toast("Not connected")
                 /\ UNCHANGED <<sent, command, thrown>>
    /\ lastEvent' = Event("sendCommand",
                          IF lastEvent.type = "sendCommand" THEN 1 - lastEvent.id ELSE 0)
    /\ UNCHANGED <<prefs, origin, item, mode, power, isMounted, exch, readyState, closeCalled, timer,
                   socketRef, isConnected, logs, stats, lastNet, history, nFrames,
                   derived>>

\* Teardown without the try around close(), on a ws whose close() throws
\* unless the socket is open.
TeardownNoTry ==
    /\ isMounted
    /\ isMounted' = FALSE
    /\ IF socketRef # 0
       THEN /\ readyState' = WsClose(readyState, socketRef)
            /\ closeCalled' = [closeCalled EXCEPT ![socketRef] = TRUE]
            /\ thrown' = (thrown \/ readyState[socketRef] # "open")
       ELSE UNCHANGED <<readyState, closeCalled, thrown>>
    /\ lastEvent' = Event("teardown", 0)
    /\ UNCHANGED <<prefs, origin, item, mode, command, power, exch, sent, timer, socketRef, isConnected, logs, stats,
                   lastNet, history, toasts, nFrames, derived>>

\* The cleanup the effect returns.
Teardown ==
    /\ isMounted
    /\ isMounted' = FALSE
    /\ IF socketRef # 0
       THEN /\ readyState' = WsClose(readyState, socketRef)
            /\ closeCalled' = [closeCalled EXCEPT ![socketRef] = TRUE]
       ELSE UNCHANGED <<readyState, closeCalled>>
    /\ lastEvent' = Event("teardown", 0)
    /\ UNCHANGED <<prefs, origin, item, mode, command, power, exch, sent, timer, socketRef, isConnected, logs, stats,
                   lastNet, history, toasts, thrown, nFrames, derived>>

----------------------------------------------------------------------------
\* Inputs.

LineBatches == {<<"a">>, <<"b", "c">>}

SnapA == Snapshot(10, 1048576, 1000, 2048)
SnapB == Snapshot(25, 3145728, 1500, 1024)

SessionFrames ==
    IF mode = "console"
    THEN {ConsoleOutput(l) : l \in LineBatches} \cup {TokenExpiring, NotJson}
    ELSE {StatsFrame(SnapA), StatsFrame(SnapB), TokenExpiring, NotJson}

Next ==
    \/ \E e \in Ids : ExchangeResolve(e)
    \/ \E e \in Ids : ExchangeReject(e)
    \/ \E s \in Ids : SockOpen(s)
    \/ \E s \in Ids : Timer(s)
    \/ \E s \in Ids : \E data \in SessionFrames :
          nFrames < MaxFrames /\ SockMessage(s, data)
    \/ \E s \in Ids : SockError(s)
    \/ \E s \in Ids : SockClosing(s)
    \/ \E s \in Ids : SockClose(s)
    \/ Teardown

Spec == Init /\ [][Next]_vars

----------------------------------------------------------------------------
\* The monitor fed with stats snapshots only: the cumulative counters rise,
\* fall back (a counter reset) and rise again.

Snap1 == Snapshot(10, 1048576, 1000, 4096)
Snap2 == Snapshot(25, 3145728, 1500, 4096)
Snap3 == Snapshot(0, 1572864, 1200, 0)
Snap4 == Snapshot(25, 0, 1300, 5120)

StatsInputs == {Snap1, Snap2, Snap3, Snap4}

MonitorInit == Init /\ mode = "monitor"

MonitorNext ==
    \/ \E e \in Ids : ExchangeResolve(e)
    \/ \E e \in Ids : ExchangeReject(e)
    \/ \E s \in Ids : SockOpen(s)
    \/ \E s \in Ids : \E snap \in StatsInputs :
          nFrames < MaxSnaps /\ SockMessage(s, StatsFrame(snap))
    \/ \E s \in Ids : nFrames < MaxSnaps /\ SockMessage(s, TokenExpiring)
    \/ \E s \in Ids : SockError(s)
    \/ \E s \in Ids : SockClosing(s)
    \/ \E s \in Ids : SockClose(s)
    \/ Teardown

MonitorSpec == MonitorInit /\ [][MonitorNext]_vars

----------------------------------------------------------------------------
\* The session fed with frames that parse but lack members, next to one
\* well-formed frame.

LackingFrames ==
    IF mode = "console"
    THEN {ConsoleOutput(<<"a">>), ConsoleOutputNoArgs, JsonNull, NotJson}
    ELSE {StatsFrame(SnapA), StatsFrameBadText, StatsFrameNoNetwork(25, 3145728),
          JsonNull}

FrameNext ==
    \/ \E e \in Ids : ExchangeResolve(e)
    \/ \E e \in Ids : ExchangeReject(e)
    \/ \E s \in Ids : SockOpen(s)
    \/ \E s \in Ids : Timer(s)
    \/ \E s \in Ids : \E data \in LackingFrames :
          nFrames < MaxFrames /\ SockMessage(s, data)
    \/ \E s \in Ids : SockError(s)
    \/ \E s \in Ids : SockClosing(s)
    \/ \E s \in Ids : SockClose(s)
    \/ Teardown

FrameSpec == Init /\ [][FrameNext]_vars

----------------------------------------------------------------------------
\* Properties.

Created == {s \in Ids : readyState[s] # "none"}

\* The sockets a later connect() has replaced in socketRef.
Superseded == {s \in Created : s # socketRef}

Visible == <<logs, isConnected, stats, lastNet, history, toasts>>

\* C1: once the cleanup has run, no callback of the session (frame, open,
\* error, close, timer, resolved or rejected exchange) changes the log store,
\* the connected flag, the latest stats, the baseline or the history, or shows
\* a toast.
C1_SilentAfterTeardown == [][~isMounted => UNCHANGED Visible]_vars

\* A close event arrived after teardown and the connected flag was left as it
\* was; a frame had been processed before.
C1_Witness ==
    /\ ~isMounted
    /\ lastEvent.type = "close"
    /\ isConnected
    /\ nFrames > 0

\* C2: after teardown every socket the session created has had close() called
\* on it by the session.
C2_NoSocketLeft == ~isMounted => \A s \in Created : closeCalled[s]

\* C3: once the socket that replaced an earlier one is open, the session has
\* called close() on the earlier one.
C3_PreviousClosed ==
    (isMounted /\ socketRef # 0 /\ readyState[socketRef] = "open")
        => \A s \in Superseded : closeCalled[s]

\* C4: a frame that arrives on a superseded socket appends nothing to the log
\* store, updates no stats, baseline or history and starts no exchange.
C4_StaleFrameDropped ==
    [][(nFrames' = nFrames + 1 /\ lastEvent'.id \in Superseded)
          => UNCHANGED <<logs, stats, lastNet, history, exch>>]_vars

\* C5: an exchange that resolves after teardown opens no socket and leaves
\* socketRef as it was.
C5_NoSocketAfterTeardown ==
    [][(~isMounted /\ exch' # exch)
          => (socketRef' = socketRef /\ readyState' = readyState)]_vars

\* An exchange started by a token expiring frame resolved after teardown.
C5_Witness ==
    /\ ~isMounted
    /\ lastEvent.type = "resolve"
    /\ lastEvent.id > 1
    /\ exch[lastEvent.id] = "abandoned"

\* C6: after teardown the session writes no frame to any socket.
C6_NoSendAfterTeardown == [][~isMounted => sent' = sent]_vars

\* C7: the deltas of every processed snapshot are the differences to the
\* baseline, clamped at 0, and 0 without a baseline; never negative.
C7_DeltaClamped ==
    \A i \in 1..Len(derived) :
        LET r == derived[i]
            dRx == r.snap.network.rx_bytes - r.base[1].rx
            dTx == r.snap.network.tx_bytes - r.base[1].tx
        IN  /\ r.base = None => (r.rx = 0 /\ r.tx = 0)
            /\ r.base # None =>
                  /\ (dRx >= 0 => r.rx = dRx) /\ (dRx < 0 => r.rx = 0)
                  /\ (dTx >= 0 => r.tx = dTx) /\ (dTx < 0 => r.tx = 0)
            /\ r.rx >= 0 /\ r.tx >= 0

\* A snapshot was taken as a plain difference and a later one was clamped.
C7_Witness ==
    \E i, j \in 1..Len(derived) :
        /\ i < j
        /\ derived[i].base # None /\ derived[i].rx > 0
        /\ derived[j].base # None
        /\ derived[j].snap.network.rx_bytes < derived[j].base[1].rx
        /\ derived[j].rx = 0

Counters(snap) == [rx |-> snap.network.rx_bytes, tx |-> snap.network.tx_bytes]

RxOf(i) == derived[i].snap.network.rx_bytes

\* C8: the baseline is null until the first snapshot is processed and is the
\* counters of the latest processed snapshot afterwards, clamped or not; so
\* rx = 1000, 1500, 1200 gives the deltas 0, 500, 0, and the next snapshot is
\* measured against 1200.
C8_BaselineIsLatest ==
    /\ (lastNet = None) <=> (Len(derived) = 0)
    /\ Len(derived) > 0 => lastNet = Some(Counters(derived[Len(derived)].snap))
    /\ \A i \in 1..Len(derived) :
          derived[i].base = IF i = 1 THEN None ELSE Some(Counters(derived[i - 1].snap))
    /\ (Len(derived) >= 3 /\ RxOf(1) = 1000 /\ RxOf(2) = 1500 /\ RxOf(3) = 1200)
          => /\ <<derived[1].rx, derived[2].rx, derived[3].rx>> = <<0, 500, 0>>
             /\ Len(derived) >= 4 =>
                   derived[4].rx = IF RxOf(4) >= 1200 THEN RxOf(4) - 1200 ELSE 0

\* rx = 1000, 1500, 1200, 1300: the fourth delta is 100.
C8_Witness ==
    /\ Len(derived) = 4
    /\ <<RxOf(1), RxOf(2), RxOf(3), RxOf(4)>> = <<1000, 1500, 1200, 1300>>
    /\ derived[4].rx = 100

Channels == <<history.cpu, history.memory, history.networkIn, history.networkOut>>

\* C9: each of the four history channels has exactly MAX_HISTORY elements.
C9_FixedLength == \A c \in 1..4 : Len(Channels[c]) = MAX_HISTORY

\* Several snapshots have been pushed.
C9_Witness ==
    /\ Len(derived) >= 3
    /\ Len(history.networkIn) = MAX_HISTORY

\* The values one processed snapshot contributes to the four channels.
Values(r) ==
    <<Num(r.snap.cpu_absolute),
      Div(Div(Num(r.snap.memory_bytes), 1024), 1024),
      Div(Num(r.rx), 1024),
      Div(Num(r.tx), 1024)>>

Shifted(old, new, value) ==
    /\ Len(new) = Len(old)
    /\ \A i \in 1..(Len(old) - 1) : new[i] = old[i + 1]
    /\ new[Len(new)] = value

\* C10: a processed snapshot shifts every channel by one: the oldest element
\* leaves, the snapshot's value becomes the last element; nothing else
\* changes the history.
C10_OnePushPerSnapshot ==
    [][IF Len(derived') = Len(derived) + 1
       THEN \A c \in 1..4 :
               Shifted(Channels[c], Channels'[c], Values(derived'[Len(derived')])[c])
       ELSE history' = history]_vars

\* Two snapshots were pushed: the first one's values sit one place before the
\* end, the second one's at the end.
C10_Witness ==
    /\ Len(derived) = 2
    /\ derived[1].snap # derived[2].snap
    /\ \A c \in 1..4 :
          /\ Channels[c][MAX_HISTORY] = Values(derived[2])[c]
          /\ Channels[c][MAX_HISTORY - 1] = Values(derived[1])[c]
    /\ history.networkIn[MAX_HISTORY] # Num(0)

\* The step is the delivery of one inbound frame.
Delivered == nFrames' = nFrames + 1

\* C11: a frame that is not valid JSON throws nothing out of the handler,
\* changes no state and starts no exchange; the handler stays in place for
\* the frames that follow.
C11_GarbageIgnored ==
    [][(Delivered /\ ~lastEvent'.data.ok)
          => UNCHANGED <<logs, isConnected, stats, lastNet, history, toasts, exch,
                         thrown, readyState, socketRef, sent>>]_vars

\* The console processed the frame ["a"] as the second frame of the session;
\* the first one left no trace: it was the frame that is not JSON.
C11_Witness ==
    /\ mode = "console"
    /\ isMounted
    /\ nFrames = 2
    /\ lastEvent.type = "message"
    /\ lastEvent.data.ok
    /\ logs = <<"a">>
    /\ exch[2] = "unused"
    /\ ~thrown

\* The text parses, but the value is null, or lacks a member, or is a stats
\* frame whose args[0] is no JSON text or a snapshot that lacks a member.
Lacking(data) ==
    /\ data.ok
    /\ \/ data.value.absent # {}
       \/ /\ data.value.event = "stats"
          /\ \/ ~data.value.args[1].ok
             \/ data.value.args[1].value.absent # {}

\* C12: a frame that parses but lacks expected members is discarded as a
\* whole: no error is raised and the log store, the connected flag, the
\* latest stats, the baseline and the history stay as they were.
C12_LackingFrameDiscarded ==
    [][(Delivered /\ Lacking(lastEvent'.data))
          => UNCHANGED <<logs, isConnected, stats, lastNet, history, toasts,
                         thrown>>]_vars

\* The step processes a token expiring frame while the session is live.
ExpiryProcessed ==
    /\ Delivered
    /\ isMounted
    /\ lastEvent'.data.ok
    /\ lastEvent'.data.value.absent = {}
    /\ lastEvent'.data.value.event = "token expiring"

Resolved(e) == exch[e] = "pending" /\ exch'[e] = "resolved"
Rejected(e) == exch[e] = "pending" /\ exch'[e] = "rejected"

\* C13: a token expiring frame processed while the session is live starts one
\* more exchange; when that exchange succeeds its socket is created and
\* becomes the current one; neither step touches the log store, the latest
\* stats, the baseline or the history.
C13_ReconnectKeepsState ==
    [][/\ ExpiryProcessed
          => /\ exch' = [exch EXCEPT ![Cardinality(Started) + 1] = "pending"]
             /\ UNCHANGED <<logs, stats, lastNet, history, socketRef, readyState>>
       /\ \A e \in Ids :
             Resolved(e)
                => /\ readyState[e] = "none"
                   /\ readyState' = [readyState EXCEPT ![e] = "connecting"]
                   /\ socketRef' = e
                   /\ UNCHANGED <<logs, stats, lastNet, history>>]_vars

\* The second socket has just replaced the first one and the state written
\* before the swap is still there.
C13_Witness ==
    /\ isMounted
    /\ lastEvent = Event("resolve", 2)
    /\ socketRef = 2
    /\ readyState[1] = "open"
    /\ logs # <<>> \/ stats # None

SocketEnded(s) ==
    readyState'[s] \in {"errored", "closed"} /\ readyState'[s] # readyState[s]

\* C14: exchanges are started only by processed token expiring frames, one
\* each (the first one is in flight from the start), never by the error or
\* close of a socket; sockets are created only by a succeeding exchange.
C14_NoRetryOnClose ==
    [][/\ exch' # exch /\ Started' # Started
          => /\ ExpiryProcessed
             /\ Cardinality(Started') = Cardinality(Started) + 1
       /\ ExpiryProcessed => Cardinality(Started') = Cardinality(Started) + 1
       /\ \A s \in Ids :
             SocketEnded(s)
                => /\ exch' = exch
                   /\ socketRef' = socketRef
                   /\ \A o \in Ids : readyState[o] = "none" => readyState'[o] = "none"
       /\ \A s \in Ids :
             (readyState[s] = "none" /\ readyState'[s] # "none") => Resolved(s)]_vars

\* The only socket of a live session has closed and no exchange was started.
C14_Witness ==
    /\ isMounted
    /\ lastEvent = Event("close", 1)
    /\ readyState[1] = "closed"
    /\ Started = {1}
    /\ nFrames > 0

\* What a failed exchange does in every case.
FailureHandled(e) ==
    /\ readyState' = readyState
    /\ socketRef' = socketRef
    /\ exch' = [exch EXCEPT ![e] = "rejected"]
    /\ toasts' = IF isMounted THEN Toast("Failed to connect") ELSE toasts

\* C15 as stated: a failed exchange opens no socket, shows exactly one failure
\* if the session is live and none otherwise, starts no retry, and the
\* connected flag is false afterwards.
C15_FailureLeavesFlagFalse ==
    [][\A e \in Ids : Rejected(e) => (FailureHandled(e) /\ ~isConnected')]_vars

\* C15 as amended: ... and the connected flag is left as it was; it is false
\* when no socket of the session has opened.
C15_FailureLeavesFlag ==
    [][\A e \in Ids :
          Rejected(e)
             => /\ FailureHandled(e)
                /\ isConnected' = isConnected
                /\ (\A s \in Ids : readyState[s] \in {"none", "connecting"})
                      => ~isConnected']_vars

\* The exchange started by a token expiring frame failed while the first
\* socket was open: one failure was shown and the flag is still true.
C15_Witness ==
    /\ isMounted
    /\ lastEvent = Event("reject", 2)
    /\ readyState[1] = "open"
    /\ isConnected
    /\ toasts["Failed to connect"] = 1

----------------------------------------------------------------------------
\* The console with its command field.

Commands == {"", " ", " list "}

MaxSends == 2

CommandInit == Init /\ mode = "console"

CommandNext ==
    \/ \E e \in Ids : ExchangeResolve(e)
    \/ \E e \in Ids : ExchangeReject(e)
    \/ \E s \in Ids : SockOpen(s)
    \/ \E s \in Ids : Timer(s)
    \/ \E s \in Ids : \E data \in {ConsoleOutput(<<"a">>), TokenExpiring} :
          nFrames < MaxFrames /\ SockMessage(s, data)
    \/ \E s \in Ids : SockError(s)
    \/ \E s \in Ids : SockClosing(s)
    \/ \E s \in Ids : SockClose(s)
    \/ \E text \in Commands : SetCommand(text)
    \/ toasts["Not connected"] + toasts["Command sent"] < MaxSends /\ SendCommand
    \/ Teardown

CommandSpec == CommandInit /\ [][CommandNext]_vars

\* The step is one run of sendCommand.
Sending == lastEvent'.type = "sendCommand" /\ lastEvent' # lastEvent

\* The current socket is open and the view knows it.
Connected == socketRef # 0 /\ readyState[socketRef] = "open" /\ isConnected

\* C16: sendCommand with a non-empty command while the session is not
\* connected shows one 'Not connected' failure, writes no frame, leaves the
\* log store and the command text alone; sendCommand changes the command text
\* only by clearing it after it has written a 'send command' frame carrying
\* that text on the current socket.
C16_CommandNeedsConnection ==
    [][Sending
         => /\ (Trim(command) # "" /\ ~Connected)
                 => /\ toasts' = Toast("Not connected")
                    /\ UNCHANGED <<sent, logs, command>>
            /\ command' # command
                 => /\ command' = ""
                    /\ socketRef # 0
                    /\ sent' = [sent EXCEPT
                                  ![socketRef] = Append(@, SendCommandFrame(command))]]_vars

----------------------------------------------------------------------------
\* The console's log store.

MaxBatches == 3

Batches == {<<"a">>, <<"b", "c">>, <<"d">>}

LogNext ==
    \/ \E e \in Ids : ExchangeResolve(e)
    \/ \E e \in Ids : ExchangeReject(e)
    \/ \E s \in Ids : SockOpen(s)
    \/ \E s \in Ids : Timer(s)
    \/ \E s \in Ids : \E l \in Batches :
          nFrames < MaxBatches /\ SockMessage(s, ConsoleOutput(l))
    \/ \E s \in Ids : SockError(s)
    \/ \E s \in Ids : SockClosing(s)
    \/ \E s \in Ids : SockClose(s)
    \/ \E text \in Commands : SetCommand(text)
    \/ toasts["Not connected"] + toasts["Command sent"] < MaxSends /\ SendCommand
    \/ Teardown

LogSpec == CommandInit /\ [][LogNext]_vars

\* The step processes a well-formed console output frame.
OutputProcessed ==
    /\ Delivered
    /\ isMounted
    /\ lastEvent'.data.ok
    /\ lastEvent'.data.value.absent = {}
    /\ lastEvent'.data.value.event = "console output"

\* C17: the log store starts empty; a processed console output frame appends
\* its args, in order, at the end of the store, and no other step changes the
\* store: the store is the concatenation of the processed args in arrival
\* order.
C17_LogsAreConcatenation ==
    [][IF OutputProcessed
       THEN logs' = logs \o lastEvent'.data.value.args
       ELSE logs' = logs]_vars

\* The frames ["a"], ["b","c"], ["d"] were processed in this order.
C17_Witness ==
    /\ logs = <<"a", "b", "c", "d">>
    /\ nFrames = 3
    /\ lastEvent.type = "message"
    /\ lastEvent.data = ConsoleOutput(<<"d">>)

----------------------------------------------------------------------------
\* The frames the session writes.

Opens(s) == readyState[s] = "connecting" /\ readyState'[s] = "open"

DelayElapses(s) == timer[s] = "armed" /\ timer'[s] = "fired"

\* What holds of socket s's outbound frames in every case: auth with the
\* socket's own token comes first, written by the open handler; the monitor
\* writes nothing else; the console writes at most one 'send logs' after it,
\* and only when the delay elapses.
AuthFirst(s) ==
    /\ Opens(s) => sent'[s] = <<AuthFrame(Token(s))>>
    /\ sent'[s] # <<>> => sent'[s][1] = AuthFrame(Token(s))
    /\ mode = "monitor" => Len(sent'[s]) <= 1
    /\ mode = "console"
          => sent'[s] \in {<<>>, <<AuthFrame(Token(s))>>,
                           <<AuthFrame(Token(s)), SendLogsFrame>>}
    /\ (sent'[s] # sent[s] /\ sent[s] # <<>>) => DelayElapses(s)

\* C18 as stated: ... and in console mode exactly one 'send logs' has followed
\* the auth frame once the delay has elapsed.
C18_AuthThenBacklog ==
    [][\A s \in Ids :
          /\ AuthFirst(s)
          /\ DelayElapses(s) => sent'[s] = <<AuthFrame(Token(s)), SendLogsFrame>>]_vars

\* C18 as amended: ... exactly one 'send logs' has followed the auth frame
\* once the delay has elapsed with the socket still open, and none is written
\* when the socket is no longer open by then.
C18_AuthThenBacklogIfOpen ==
    [][\A s \in Ids :
          /\ AuthFirst(s)
          /\ DelayElapses(s)
                => IF readyState[s] = "open"
                   THEN sent'[s] = <<AuthFrame(Token(s)), SendLogsFrame>>
                   ELSE sent'[s] = sent[s]]_vars

\* Both sockets of a console session were authenticated with their own
\* tokens and both delays have elapsed: the first socket had closed by then,
\* the second one got its backlog request.
C18_Witness ==
    /\ mode = "console"
    /\ timer[1] = "fired"
    /\ sent[1] = <<AuthFrame(Token(1))>>
    /\ timer[2] = "fired"
    /\ sent[2] = <<AuthFrame(Token(2)), SendLogsFrame>>

----------------------------------------------------------------------------
\* A server list item: ServerListItem and getServerResources.

MaxRuns == 3

PowerStates == {"running", "offline", "starting", "stopping"}

Identifiers == {"srv-a", "srv-b"}

\* The attributes of a resources response for a server in the given state.
Attributes(state) ==
    [current_state |-> state, is_suspended |-> (state = "stopping"),
     resources |-> IF state \in {"running", "starting"}
                   THEN [memory_bytes |-> 3145728, cpu_absolute |-> 25,
                         disk_bytes |-> 1048576, network_rx_bytes |-> 2048,
                         network_tx_bytes |-> 1024]
                   ELSE [memory_bytes |-> 0, cpu_absolute |-> 0,
                         disk_bytes |-> 1048576, network_rx_bytes |-> 0,
                         network_tx_bytes |-> 0]]

\* The outcomes of client.get: a response, or a rejection (no attributes).
ResourceResponses ==
    {[ok |-> TRUE, attributes |-> Attributes(state)] : state \in PowerStates}
       \cup {[ok |-> FALSE,
              attributes |-> [current_state |-> "", is_suspended |-> FALSE,
                              resources |-> [memory_bytes |-> 0, cpu_absolute |-> 0,
                                             disk_bytes |-> 0, network_rx_bytes |-> 0,
                                             network_tx_bytes |-> 0]]]}

LastRun == item.runs[Len(item.runs)]

\* The actions the "Power Actions" section renders for the item's stats.
Offered(itemStats) ==
    (IF itemStats = None \/ itemStats[1].current_state = "offline"
     THEN {"start"} ELSE {})
       \cup
    (IF itemStats = None \/ itemStats[1].current_state \in {"running", "starting"}
     THEN {"restart", "stop", "kill"} ELSE {})

\* A dependency of the effect changed (refreshTick after a fetchServers, or
\* the server's identifier): the cleanup of the last run clears its flag and
\* the effect runs again, issuing a new request.
EffectRerun(identifier, refreshTick) ==
    /\ item.mounted
    /\ Len(item.runs) < MaxRuns
    /\ <<identifier, refreshTick>> # <<LastRun.identifier, LastRun.refreshTick>>
    /\ item' = [item EXCEPT
                  !.runs = Append([@ EXCEPT ![Len(@)].isMounted = FALSE],
                                  EffectRun(identifier, refreshTick))]
    /\ UNCHANGED <<prefs, origin, mode, command, power, isMounted, exch, readyState,
                   closeCalled, sent, timer, socketRef, isConnected, logs, stats,
                   lastNet, history, toasts, thrown, nFrames, derived, lastEvent>>

\* ResourcesResponse without the isMounted check.
ResourcesResponseUnguarded(r, response) ==
    /\ item.runs[r].pc = "pending"
    /\ item' = [item EXCEPT
                  !.runs[r].pc = "done",
                  !.runs[r].response = Some(response),
                  !.runs[r].returned = Some(getServerResources(response)),
                  !.stats = Some(getServerResources(response)),
                  !.statsFrom = r]
    /\ UNCHANGED <<prefs, origin, mode, command, power, isMounted, exch, readyState,
                   closeCalled, sent, timer, socketRef, isConnected, logs, stats,
                   lastNet, history, toasts, thrown, nFrames, derived, lastEvent>>

\* The request of run r settles and getServerResources returns; the then
\* callback writes stats if the run's flag is still set.
ResourcesResponse(r, response) ==
    /\ item.runs[r].pc = "pending"
    /\ item' = [item EXCEPT
                  !.runs[r].pc = "done",
                  !.runs[r].response = Some(response),
                  !.runs[r].returned = Some(getServerResources(response)),
                  !.stats = IF item.runs[r].isMounted
                            THEN Some(getServerResources(response)) ELSE @,
                  !.statsFrom = IF item.runs[r].isMounted THEN r ELSE @]
    /\ UNCHANGED <<prefs, origin, mode, command, power, isMounted, exch, readyState,
                   closeCalled, sent, timer, socketRef, isConnected, logs, stats,
                   lastNet, history, toasts, thrown, nFrames, derived, lastEvent>>

\* The item leaves the list: the cleanup of the last run clears its flag.
ItemUnmount ==
    /\ item.mounted
    /\ item' = [item EXCEPT !.mounted = FALSE,
                            !.runs[Len(item.runs)].isMounted = FALSE]
    /\ UNCHANGED <<prefs, origin, mode, command, power, isMounted, exch, readyState,
                   closeCalled, sent, timer, socketRef, isConnected, logs, stats,
                   lastNet, history, toasts, thrown, nFrames, derived, lastEvent>>

----------------------------------------------------------------------------
\* Power actions of a server list item: handlePowerAction.  power[i] is the
\* i-th call: where it stands, the dialog's answer, the calls of the REST
\* power endpoint, its toast, the pending timers and the delays of the
\* timers that have run onRefresh, in the order they ran.

MaxPower == 2

Signals == {"start", "stop", "restart", "kill"}

delays == <<1000, 2000, 4000, 6000, 10000, 15000, 20000, 30000>>

NoToast == [style |-> "none", title |-> "", message |-> ""]

Requests == 1..Len(power)

\* An action of the "Power Actions" section calls handlePowerAction, which
\* opens the confirmation dialog.
RequestPower(signal) ==
    /\ Len(power) < MaxPower
    /\ item.mounted
    /\ signal \in Offered(item.stats)
    /\ power' = Append(power, [signal |-> signal, pc |-> "confirming",
                               answer |-> "none", calls |-> 0, toast |-> NoToast,
                               pending |-> {}, fired |-> <<>>, error |-> None])
    /\ UNCHANGED <<prefs, origin, item, mode, command, isMounted, exch, readyState, closeCalled, sent,
                   timer, socketRef, isConnected, logs, stats, lastNet, history,
                   toasts, thrown, nFrames, derived, lastEvent>>

\* Dismiss that falls through to the send.
DismissIgnored(i) ==
    /\ power[i].pc = "confirming"
    /\ power' = [power EXCEPT ![i].answer = "dismissed",
                              ![i].pc = "sending",
                              ![i].toast = [style |-> "animated",
                                            title |-> "Sending " \o power[i].signal \o " signal...",
                                            message |-> ""],
                              ![i].calls = @ + 1]
    /\ UNCHANGED <<prefs, origin, item, mode, command, isMounted, exch, readyState, closeCalled, sent,
                   timer, socketRef, isConnected, logs, stats, lastNet, history,
                   toasts, thrown, nFrames, derived, lastEvent>>

\* confirmAlert resolves false: handlePowerAction returns.
Dismiss(i) ==
    /\ power[i].pc = "confirming"
    /\ power' = [power EXCEPT ![i].answer = "dismissed", ![i].pc = "returned"]
    /\ UNCHANGED <<prefs, origin, item, mode, command, isMounted, exch, readyState, closeCalled, sent,
                   timer, socketRef, isConnected, logs, stats, lastNet, history,
                   toasts, thrown, nFrames, derived, lastEvent>>

\* confirmAlert resolves true: the animated toast is shown and setPowerState
\* posts the signal.
Confirm(i) ==
    /\ power[i].pc = "confirming"
    /\ power' = [power EXCEPT ![i].answer = "confirmed",
                              ![i].pc = "sending",
                              ![i].toast = [style |-> "animated",
                                            title |-> "Sending " \o power[i].signal \o " signal...",
                                            message |-> ""],
                              ![i].calls = @ + 1]
    /\ UNCHANGED <<prefs, origin, item, mode, command, isMounted, exch, readyState, closeCalled, sent,
                   timer, socketRef, isConnected, logs, stats, lastNet, history,
                   toasts, thrown, nFrames, derived, lastEvent>>

\* setPowerState resolves: the toast turns into a success and one timer per
\* delay is set.
PowerSent(i) ==
    /\ power[i].pc = "sending"
    /\ power' = [power EXCEPT ![i].pc = "sent",
                              ![i].toast = [style |-> "success",
                                            title |-> "Signal " \o power[i].signal \o " sent",
                                            message |-> ""],
                              ![i].pending = {delays[k] : k \in DOMAIN delays}]
    /\ UNCHANGED <<prefs, origin, item, mode, command, isMounted, exch, readyState, closeCalled, sent,
                   timer, socketRef, isConnected, logs, stats, lastNet, history,
                   toasts, thrown, nFrames, derived, lastEvent>>

\* What setPowerState can reject with: an Error (axios rejects with one),
\* or any other value.
Errors ==
    {[isError |-> TRUE, message |-> "Request failed with status code 500", text |-> ""],
     [isError |-> TRUE, message |-> "Network Error", text |-> ""],
     [isError |-> FALSE, message |-> "", text |-> "aborted"]}

\* error instanceof Error ? error.message : String(error)
MessageOf(error) == IF error.isError THEN error.message ELSE error.text

\* PowerFailed that sets the refresh timers all the same.
PowerFailedProbing(i, error) ==
    /\ power[i].pc = "sending"
    /\ power' = [power EXCEPT ![i].pc = "failed",
                              ![i].error = Some(error),
                              ![i].toast = [style |-> "failure",
                                            title |-> "Failed to send signal",
                                            message |-> MessageOf(error)],
                              ![i].pending = {delays[k] : k \in DOMAIN delays}]
    /\ UNCHANGED <<prefs, origin, item, mode, command, isMounted, exch, readyState, closeCalled, sent,
                   timer, socketRef, isConnected, logs, stats, lastNet, history,
                   toasts, thrown, nFrames, derived, lastEvent>>

\* setPowerState rejects with error: the catch block turns the toast into a
\* failure.
PowerFailed(i, error) ==
    /\ power[i].pc = "sending"
    /\ power' = [power EXCEPT ![i].pc = "failed",
                              ![i].error = Some(error),
                              ![i].toast = [style |-> "failure",
                                            title |-> "Failed to send signal",
                                            message |-> MessageOf(error)]]
    /\ UNCHANGED <<prefs, origin, item, mode, command, isMounted, exch, readyState, closeCalled, sent,
                   timer, socketRef, isConnected, logs, stats, lastNet, history,
                   toasts, thrown, nFrames, derived, lastEvent>>

\* The timers of one call were set together, so the one with the least delay
\* is the next to run.
NextDelay(i) == CHOOSE d \in power[i].pending : \A o \in power[i].pending : d <= o

\* Probe that sets its timer again.
ProbeRepeating(i) ==
    /\ power[i].pending # {}
    /\ power' = [power EXCEPT ![i].fired = Append(@, NextDelay(i))]
    /\ UNCHANGED <<prefs, origin, item, mode, command, isMounted, exch, readyState, closeCalled, sent,
                   timer, socketRef, isConnected, logs, stats, lastNet, history,
                   toasts, thrown, nFrames, derived, lastEvent>>

\* A timer of call i runs: onRefresh().
Probe(i) ==
    /\ power[i].pending # {}
    /\ power' = [power EXCEPT ![i].pending = @ \ {NextDelay(i)},
                              ![i].fired = Append(@, NextDelay(i))]
    /\ UNCHANGED <<prefs, origin, item, mode, command, isMounted, exch, readyState, closeCalled, sent,
                   timer, socketRef, isConnected, logs, stats, lastNet, history,
                   toasts, thrown, nFrames, derived, lastEvent>>

PowerNext ==
    \/ \E signal \in Signals : RequestPower(signal)
    \/ \E i \in Requests : Dismiss(i)
    \/ \E i \in Requests : Confirm(i)
    \/ \E i \in Requests : PowerSent(i)
    \/ \E i \in Requests : \E error \in Errors : PowerFailed(i, error)
    \/ \E i \in Requests : Probe(i)

PowerSpec == CommandInit /\ [][PowerNext]_vars

\* C19: the power endpoint has been called for a request only if its dialog
\* was confirmed, and at most once; while the dialog is open and after it was
\* dismissed the endpoint has not been called, no toast is shown and no
\* refresh probe is scheduled or has run, and a dismissed request is over.
C19_ConfirmedBeforeSend ==
    \A i \in Requests :
       /\ power[i].calls > 0 => (power[i].answer = "confirmed" /\ power[i].calls = 1)
       /\ power[i].answer # "confirmed"
             => /\ power[i].calls = 0
                /\ power[i].toast = NoToast
                /\ power[i].pending = {}
                /\ power[i].fired = <<>>
       /\ power[i].answer = "dismissed" => power[i].pc = "returned"

\* A kill was dismissed and, asked again, confirmed and sent.
C19_Witness ==
    /\ Len(power) = 2
    /\ power[1].signal = "kill" /\ power[1].answer = "dismissed"
    /\ power[2].signal = "kill" /\ power[2].answer = "confirmed"
    /\ power[2].calls = 1

\* The probe times of the claim, in seconds.
ProbeSeconds == <<1, 2, 4, 6, 10, 15, 20, 30>>

Seconds(ms) == ms \div 1000

IsProbePrefix(f) ==
    /\ Len(f) <= Len(ProbeSeconds)
    /\ \A k \in DOMAIN f : f[k] % 1000 = 0 /\ Seconds(f[k]) = ProbeSeconds[k]

\* C20: a successful send sets exactly eight timers, for 1, 2, 4, 6, 10, 15,
\* 20 and 30 s; a request's timers change only by one of them running, which
\* removes it and sets none; the probes that have run are a prefix of the
\* eight, each once, and with the probes still pending they are the eight:
\* after the eighth none is pending.  A request that was not sent has none.
C20_EightProbes ==
    [][\A i \in 1..Len(power') :
          LET new == power'[i] IN
          /\ IF new.pc = "sent"
             THEN /\ IsProbePrefix(new.fired)
                  /\ Cardinality(new.pending) + Len(new.fired) = 8
                  /\ \A d \in new.pending :
                        \E k \in (Len(new.fired) + 1)..8 :
                           d % 1000 = 0 /\ Seconds(d) = ProbeSeconds[k]
             ELSE new.pending = {} /\ new.fired = <<>>
          /\ i \in Requests
                => LET old == power[i] IN
                   /\ (old.pc = "sending" /\ new.pc = "sent")
                         => Cardinality(new.pending) = 8 /\ new.fired = <<>>
                   /\ (old.pc = "sent" /\ new # old)
                         => /\ new.pc = "sent"
                            /\ Len(new.fired) = Len(old.fired) + 1
                            /\ new.pending \subseteq old.pending
                            /\ Cardinality(new.pending) = Cardinality(old.pending) - 1]_vars

\* All eight probes of a sent request have run and none is pending.
C20_Witness ==
    \E i \in Requests :
       /\ power[i].pc = "sent"
       /\ Len(power[i].fired) = 8
       /\ power[i].fired[8] = 30000
       /\ power[i].pending = {}

\* C21: when setPowerState rejects, the same step turns the toast into a
\* failure titled "Failed to send signal" whose message is the error's
\* message, and sets no timer; a failed request never has a probe pending or
\* run, and its toast stays the failure.
C21_FailedSendNoProbes ==
    [][\A i \in 1..Len(power') :
          LET new == power'[i] IN
          /\ new.pc = "failed"
                => /\ new.pending = {} /\ new.fired = <<>>
                   /\ new.error # None
                   /\ new.toast = [style |-> "failure",
                                   title |-> "Failed to send signal",
                                   message |-> IF new.error[1].isError
                                               THEN new.error[1].message
                                               ELSE new.error[1].text]
                   /\ new.toast.message # ""
          /\ (i \in Requests /\ power[i].pc = "sending" /\ new # power[i])
                => new.pc \in {"sent", "failed"}
          /\ (i \in Requests /\ power[i].pc = "failed") => new = power[i]]_vars

\* A confirmed kill failed with "Network Error" and the toast says so.
C21_Witness ==
    \E i \in Requests :
       /\ power[i].pc = "failed"
       /\ power[i].calls = 1
       /\ power[i].toast.style = "failure"
       /\ power[i].toast.message = "Network Error"
       /\ power[i].pending = {}

\* The step is the cleanup of the effect.
TornDown == isMounted /\ ~isMounted'

\* C22: the cleanup raises no error and shows nothing, whatever the state of
\* the session: with no socket it only clears the flag; a connecting socket
\* is aborted, an open one starts closing, and a closing, closed or errored
\* one is left as it is.  The flag is false afterwards and stays false.
C22_TeardownIsSafe ==
    [][/\ TornDown
          => /\ thrown' = thrown
             /\ toasts' = toasts
             /\ readyState' =
                   IF socketRef = 0
                   THEN readyState
                   ELSE [readyState EXCEPT
                            ![socketRef] = CASE @ = "connecting" -> "aborting"
                                             [] @ = "open" -> "closing"
                                             [] OTHER -> @]
       /\ ~isMounted => ~isMounted']_vars

\* The cleanup ran on a socket that was already closing, and nothing was
\* raised.
C22_Witness ==
    /\ lastEvent = Event("teardown", 0)
    /\ ~isMounted
    /\ socketRef # 0
    /\ readyState[socketRef] = "peerClosing"
    /\ closeCalled[socketRef]
    /\ ~thrown

----------------------------------------------------------------------------
\* The list item with its refreshes, and with its power actions' requests.

RefreshNext ==
    \/ \E identifier \in Identifiers :
          \E refreshTick \in {LastRun.refreshTick, LastRun.refreshTick + 1} :
             EffectRerun(identifier, refreshTick)
    \/ \E r \in 1..Len(item.runs) : \E response \in ResourceResponses :
          ResourcesResponse(r, response)
    \/ ItemUnmount

RefreshSpec == CommandInit /\ [][RefreshNext]_vars

ItemNext ==
    \/ \E identifier \in Identifiers :
          \E refreshTick \in {LastRun.refreshTick, LastRun.refreshTick + 1} :
             EffectRerun(identifier, refreshTick)
    \/ \E r \in 1..Len(item.runs) : \E response \in ResourceResponses :
          ResourcesResponse(r, response)
    \/ \E signal \in Signals : RequestPower(signal)
    \/ ItemUnmount

ItemSpec == CommandInit /\ [][ItemNext]_vars

\* The server's state as the item knows it.
KnownState == IF item.stats = None THEN "unknown" ELSE item.stats[1].current_state

\* C23: a start is requested from the list only when the server's known
\* state is offline, and a stop or a restart only when it is running.
C23_SmartActions ==
    [][Len(power') > Len(power)
          => LET signal == power'[Len(power')].signal IN
             /\ signal = "start" => KnownState = "offline"
             /\ signal \in {"stop", "restart"} => KnownState = "running"]_vars

FiveCounters ==
    {"memory_bytes", "cpu_absolute", "disk_bytes", "network_rx_bytes",
     "network_tx_bytes"}

\* C24: every settled resources request made getServerResources return a
\* value: the response's attributes as they came when the request succeeded,
\* and otherwise the offline snapshot, not suspended, with exactly the five
\* counters, all 0.
C24_ResourcesFallback ==
    \A r \in 1..Len(item.runs) :
       item.runs[r].pc = "done"
          => /\ item.runs[r].returned # None
             /\ LET response == item.runs[r].response[1]
                    returned == item.runs[r].returned[1]
                IN IF response.ok
                   THEN returned = response.attributes
                   ELSE /\ returned.current_state = "offline"
                        /\ returned.is_suspended = FALSE
                        /\ DOMAIN returned.resources = FiveCounters
                        /\ \A c \in FiveCounters : returned.resources[c] = 0

\* One request failed and gave the offline snapshot, another one succeeded
\* for a running server and gave its attributes.
C24_Witness ==
    /\ Len(item.runs) >= 2
    /\ item.runs[1].pc = "done" /\ ~item.runs[1].response[1].ok
    /\ item.runs[1].returned[1].current_state = "offline"
    /\ item.runs[2].pc = "done" /\ item.runs[2].response[1].ok
    /\ item.runs[2].returned[1].current_state = "running"
    /\ item.runs[2].returned[1].resources.memory_bytes = 3145728

\* C27: the item's stats change only when the response of the latest run of
\* the effect arrives while the item is mounted, and then they are what that
\* request returned; so on a mounted item the stats come from the latest run
\* once it has settled, and from an earlier run, or none, while it is
\* outstanding.
C27_StaleResponseDropped ==
    [][/\ (item'.stats # item.stats \/ item'.statsFrom # item.statsFrom)
          => /\ item.mounted /\ item'.mounted
             /\ item'.runs # item.runs
             /\ Len(item'.runs) = Len(item.runs)
             /\ LastRun.pc = "pending"
             /\ item'.statsFrom = Len(item.runs)
             /\ item'.stats = item'.runs[Len(item.runs)].returned
       /\ item'.mounted
          => LET last == item'.runs[Len(item'.runs)] IN
             IF last.pc = "done"
             THEN item'.statsFrom = Len(item'.runs) /\ item'.stats = last.returned
             ELSE item'.statsFrom < Len(item'.runs)]_vars

\* The response of the first run arrived after a refresh had superseded it:
\* the stats are still null while the second request is outstanding.
C27_Witness ==
    /\ item.mounted
    /\ Len(item.runs) = 2
    /\ item.runs[1].pc = "done" /\ ~item.runs[1].isMounted
    /\ item.runs[2].pc = "pending"
    /\ item.statsFrom = 0
    /\ item.stats = None

----------------------------------------------------------------------------
\* The session under every configured panel URL.

MaxUrlLen == 3

\* The URLs of up to MaxUrlLen characters: "p" is any character but '/'.
Urls == UNION {[1..n -> {"p", "/"}] : n \in 1..MaxUrlLen}

OriginInit == SessionInit /\ mode = "console" /\ prefs \in Urls

OriginSpec == OriginInit /\ [][Next]_vars

\* k times '/'.
Slashes(k) == [i \in 1..k |-> "/"]

\* C25: the Origin header of every socket created does not end with '/', and
\* the configured URL is the header followed by zero or more '/'.
C25_OriginStripped ==
    \A s \in Ids :
       origin[s] # None
          => LET header == origin[s][1] IN
             /\ ~EndsWith(header, "/")
             /\ \E k \in 0..Len(prefs) : prefs = header \o Slashes(k)

\* C26: while the session is live the connected flag is true only if the
\* current socket is open (a socket whose close is under way but not yet
\* reported counts as open here); the error or close of a superseded socket
\* does not clear the flag while the current socket is open; sendCommand
\* does not call send on a connecting socket and does not answer 'Not
\* connected' while the current socket is open.
C26_FlagFollowsCurrentSocket ==
    [][/\ (isMounted' /\ isConnected')
          => (socketRef' # 0 /\ readyState'[socketRef'] \in {"open", "peerClosing"})
       /\ \A s \in Ids :
             (isMounted /\ SocketEnded(s) /\ socketRef # 0 /\ s # socketRef
                /\ readyState[socketRef] = "open" /\ isConnected)
                => isConnected'
       /\ (Sending /\ Trim(command) # "" /\ socketRef # 0)
             => /\ isConnected => readyState[socketRef] # "connecting"
                /\ readyState[socketRef] = "open"
                      => toasts'["Not connected"] = toasts["Not connected"]]_vars

====
